---- MODULE Spec2Model ----
(***************************************************************************)
(* OpenID Connect Relying Party (client/src/index.ts, class               *)
(* OpenIDConnectRP) as a state machine.                                    *)
(*                                                                         *)
(* JavaScript values are tagged records: Undefined, Null, Str(s), Num(n),  *)
(* Arr(a), Obj(o), Err(m).  A string is a sequence of tokens, so that the  *)
(* form encoding of query strings ("+" for a space, "%2B" for a plus) is   *)
(* a real conversion on its characters.                                    *)
(***************************************************************************)
EXTENDS Integers, Sequences, FiniteSets

VARIABLES rp, clock, calls, history, provider

vars == <<rp, clock, calls, history, provider>>

\* ------------------------------------------------------------------ bounds

\* The clock counts half seconds: Date.now() is clock * HalfSecondMs.
MaxClock == 2
\* The largest `exp` claim of an ID token payload, in seconds.
MaxExp == 2
\* The longest `aud` array of an ID token payload.
MaxAud == 2
\* The callers that use one instance at the same time.
Callers == 2

HalfSecondMs == 500
MsPerSecond == 1000

\* ------------------------------------------------------------- JS values

Undefined == [t |-> "undefined"]
Null == [t |-> "null"]
NaN == [t |-> "nan"]
Str(s) == [t |-> "str", v |-> s]
Num(n) == [t |-> "num", v |-> n]
Arr(a) == [t |-> "arr", v |-> a]
Obj(o) == [t |-> "obj", v |-> o]
\* An instance of Error with the given message.
Err(m) == [t |-> "error", v |-> m]

IsStr(x) == x.t = "str"

\* ToBoolean: undefined, null, "", 0 and NaN are falsy.
Truthy(x) ==
  CASE x.t = "undefined" -> FALSE
    [] x.t = "null" -> FALSE
    [] x.t = "nan" -> FALSE
    [] x.t = "str" -> x.v # <<>>
    [] x.t = "num" -> x.v # 0
    [] OTHER -> TRUE

\* a === b (also SameValueZero on the values used here).
StrictEq(a, b) ==
  /\ a.t = b.t
  /\ a.t # "nan"
  /\ (a.t \in {"undefined", "null"} \/ a.v = b.v)

\* a || b
JsOr(a, b) == IF Truthy(a) THEN a ELSE b

\* ToNumber, as the relational operators apply it.  The only strings of the
\* model that hold a numeral are the empty string (0); every other string
\* of the model is not numeric.
ToNumber(x) ==
  CASE x.t = "num" -> x
    [] x.t = "null" -> Num(0)
    [] x.t = "str" -> IF x.v = <<>> THEN Num(0) ELSE NaN
    [] OTHER -> NaN

\* a <= b : false as soon as one side converts to NaN.
JsLessEq(a, b) ==
  LET x == ToNumber(a)
      y == ToNumber(b)
  IN x.t = "num" /\ y.t = "num" /\ x.v <= y.v

\* String(x) for the values a rejected promise can carry.
JsString(x) ==
  CASE x.t = "str" -> x.v
    [] x.t = "undefined" -> <<"undefined">>
    [] x.t = "null" -> <<"null">>
    [] x.t = "error" -> <<"Error: ">> \o x.v
    [] OTHER -> <<"[object]">>

\* -------------------------------------------------------- form encoding

\* URLSearchParams.toString(): one token of a value, percent-encoded.
EncodeToken(c) ==
  CASE c = " " -> "+"
    [] c = "+" -> "%2B"
    [] c = "&" -> "%26"
    [] c = "=" -> "%3D"
    [] c = "?" -> "%3F"
    [] c = "#" -> "%23"
    [] OTHER -> c

\* new URLSearchParams(search): one token of a raw value, decoded.
DecodeToken(c) ==
  CASE c = "+" -> " "
    [] c = "%20" -> " "
    [] c = "%2B" -> "+"
    [] c = "%26" -> "&"
    [] c = "%3D" -> "="
    [] c = "%3F" -> "?"
    [] c = "%23" -> "#"
    [] OTHER -> c

FormEncode(s) == [i \in 1..Len(s) |-> EncodeToken(s[i])]
FormDecode(s) == [i \in 1..Len(s) |-> DecodeToken(s[i])]

\* new URLSearchParams(urlObj.search): the pairs of the query, decoded.
ParseSearch(search) ==
  [i \in 1..Len(search) |-> <<search[i][1], FormDecode(search[i][2])>>]

RECURSIVE ParamsGetFrom(_, _, _)
ParamsGetFrom(params, name, i) ==
  IF i > Len(params) THEN Null
  ELSE IF params[i][1] = name THEN Str(params[i][2])
  ELSE ParamsGetFrom(params, name, i + 1)

\* params.get(name): the first value of that name, or null.
ParamsGet(params, name) == ParamsGetFrom(params, name, 1)

\* --------------------------------------------------------- URL strings

\* A URL is a string whose separators "?", "&", "=" and "#" are tokens of
\* their own.

Digit == <<"0", "1", "2", "3", "4", "5", "6", "7", "8", "9">>
Radix == 10

\* Number.prototype.toString() of a non-negative integer: its decimal digits.
RECURSIVE NumberToString(_)
NumberToString(n) ==
  IF n < Radix THEN <<Digit[n + 1]>>
  ELSE NumberToString(n \div Radix) \o <<Digit[(n % Radix) + 1]>>

\* URLSearchParams.toString(): name=value pairs joined by "&", the values
\* percent-encoded.
RECURSIVE SerializeParams(_)
SerializeParams(pairs) ==
  IF pairs = <<>> THEN <<>>
  ELSE <<pairs[1][1], "=">> \o FormEncode(pairs[1][2])
       \o (IF Len(pairs) > 1 THEN <<"&">> \o SerializeParams(Tail(pairs))
           ELSE <<>>)

\* The position of the first token of `s` that is `sep`, or 0.
RECURSIVE IndexFrom(_, _, _)
IndexFrom(s, sep, i) ==
  IF i > Len(s) THEN 0
  ELSE IF s[i] = sep THEN i
  ELSE IndexFrom(s, sep, i + 1)

IndexOf(s, sep) == IndexFrom(s, sep, 1)

\* s.split(sep)
RECURSIVE Split(_, _)
Split(s, sep) ==
  LET k == IndexOf(s, sep)
  IN IF k = 0 THEN <<s>>
     ELSE <<SubSeq(s, 1, k - 1)>> \o Split(SubSeq(s, k + 1, Len(s)), sep)

\* new URL(url): the URL without its fragment, cut at the first "?".
WithoutFragment(url) ==
  LET k == IndexOf(url, "#")
  IN IF k = 0 THEN url ELSE SubSeq(url, 1, k - 1)

\* parsedUrl.origin + parsedUrl.pathname
UrlOriginAndPathname(url) ==
  LET u == WithoutFragment(url)
      k == IndexOf(u, "?")
  IN IF k = 0 THEN u ELSE SubSeq(u, 1, k - 1)

\* parsedUrl.search, without its leading "?"
UrlSearch(url) ==
  LET u == WithoutFragment(url)
      k == IndexOf(u, "?")
  IN IF k = 0 THEN <<>> ELSE SubSeq(u, k + 1, Len(u))

\* One name=value piece of a query, cut at its first "=" and decoded.
ParsePair(piece) ==
  LET k == IndexOf(piece, "=")
  IN IF k = 0 THEN <<FormDecode(piece), <<>>>>
     ELSE <<FormDecode(SubSeq(piece, 1, k - 1)),
            FormDecode(SubSeq(piece, k + 1, Len(piece)))>>

\* new URLSearchParams(parsedUrl.search): the decoded pairs of the query of
\* `url`; empty pieces are skipped.
UrlParams(url) ==
  LET pieces == SelectSeq(Split(UrlSearch(url), "&"), LAMBDA x : x # <<>>)
  IN [i \in 1..Len(pieces) |-> ParsePair(pieces[i])]

\* new URLSearchParams(new URL(url).search).get(name)
UrlParamsGet(url, name) == ParamsGet(UrlParams(url), <<name>>)

\* ----------------------------------------------------------- the instance

ClientId == <<"client">>
OtherClientId == <<"other-client">>
RedirectUri == <<"https://rp.example/callback">>
AuthorizationEndpoint == <<"https://op.example/authorize">>
TokenEndpoint == <<"https://op.example/token">>
ClientSecret == <<"secret">>

\* A caller-supplied state holding a space and a plus, which the form
\* encoding rewrites.
SuppliedState == <<"s", " ", "+">>
SuppliedNonce == <<"n1">>
\* What generateRandomString() can return: 32 characters of the charset,
\* any of them; two distinct ones stand for the choice.
RandomStrings == {<<"rnd-A">>, <<"rnd-B">>}

\* An OpenIDConfiguration: every field, Undefined when the caller left it out.
Config(clientId, clientSecret, state, nonce) ==
  [clientId |-> clientId,
   redirectUri |-> Str(RedirectUri),
   responseType |-> Undefined,
   scope |-> Undefined,
   authorizationEndpoint |-> Str(AuthorizationEndpoint),
   tokenEndpoint |-> Str(TokenEndpoint),
   userinfoEndpoint |-> Undefined,
   jwksUri |-> Undefined,
   clientSecret |-> clientSecret,
   responseMode |-> Undefined,
   state |-> state,
   nonce |-> nonce,
   display |-> Undefined,
   prompt |-> Undefined,
   maxAge |-> Undefined,
   uiLocales |-> Undefined,
   idTokenHint |-> Undefined,
   loginHint |-> Undefined,
   acrValues |-> Undefined]

\* The configurations the callers of the model construct instances with.
Configs ==
  {Config(Str(ClientId), secret, state, nonce) :
     secret \in {Undefined, Str(ClientSecret)},
     state \in {Undefined, Str(<<>>), Str(SuppliedState)},
     nonce \in {Undefined, Str(SuppliedNonce)}}

\* Mutant: the defaults replace what the caller supplied.
MergeDefaultsOverSupplied(config) ==
  [config EXCEPT !.responseType = Str(<<"code">>),
                 !.scope = Str(<<"openid profile email">>)]

\* { ...config, responseType: config.responseType || "code",
\*   scope: config.scope || "openid profile email" }
MergeDefaults(config) ==
  [config EXCEPT !.responseType = JsOr(@, Str(<<"code">>)),
                 !.scope = JsOr(@, Str(<<"openid profile email">>))]

\* Mutant: the required fields are checked from the last to the first.
ConstructChecksBackwards(config, r1, r2) ==
  IF ~Truthy(config.tokenEndpoint)
    THEN [ok |-> FALSE, thrown |-> Err(<<"tokenEndpoint is required">>)]
  ELSE IF ~Truthy(config.authorizationEndpoint)
    THEN [ok |-> FALSE, thrown |-> Err(<<"authorizationEndpoint is required">>)]
  ELSE IF ~Truthy(config.redirectUri)
    THEN [ok |-> FALSE, thrown |-> Err(<<"redirectUri is required">>)]
  ELSE IF ~Truthy(config.clientId)
    THEN [ok |-> FALSE, thrown |-> Err(<<"clientId is required">>)]
  ELSE [ok |-> TRUE,
        self |-> [config |-> MergeDefaults(config),
                  state |-> JsOr(config.state, Str(r1)),
                  nonce |-> JsOr(config.nonce, Str(r2))]]

\* new OpenIDConnectRP(config); r1 and r2 are what the two calls of
\* generateRandomString() would return.
Construct(config, r1, r2) ==
  IF ~Truthy(config.clientId)
    THEN [ok |-> FALSE, thrown |-> Err(<<"clientId is required">>)]
  ELSE IF ~Truthy(config.redirectUri)
    THEN [ok |-> FALSE, thrown |-> Err(<<"redirectUri is required">>)]
  ELSE IF ~Truthy(config.authorizationEndpoint)
    THEN [ok |-> FALSE, thrown |-> Err(<<"authorizationEndpoint is required">>)]
  ELSE IF ~Truthy(config.tokenEndpoint)
    THEN [ok |-> FALSE, thrown |-> Err(<<"tokenEndpoint is required">>)]
  ELSE [ok |-> TRUE,
        self |-> [config |-> MergeDefaults(config),
                  state |-> JsOr(config.state, Str(r1)),
                  nonce |-> JsOr(config.nonce, Str(r2))]]

\* The variable `rp` before a constructor call has succeeded.
NoInstance == [t |-> "none"]

\* ----------------------------------------------------------------- calls

\* How the synchronous part of an operation ends: it returns a value, throws
\* (an async function then rejects), or suspends at `await fetch(request)`.
Return(v) == [kind |-> "return", value |-> v]
Throw(e) == [kind |-> "throw", value |-> e]
Await(request) == [kind |-> "fetch", value |-> request]

\* The object handleCallback resolves to; a key it leaves out reads undefined.
CallbackResult(tokenResponse, error, errorDescription) ==
  [tokenResponse |-> tokenResponse, error |-> error,
   errorDescription |-> errorDescription]

\* getToken up to its `await fetch`: the request it issues.  URLSearchParams
\* turns every value it is given into a string.
GetTokenRequest(self, code) ==
  [url |-> self.config.tokenEndpoint,
   method |-> "POST",
   contentType |-> "application/x-www-form-urlencoded",
   body |-> <<<<"grant_type", FormEncode(<<"authorization_code">>)>>,
              <<"code", FormEncode(JsString(code))>>,
              <<"redirect_uri", FormEncode(self.config.redirectUri.v)>>,
              <<"client_id", FormEncode(self.config.clientId.v)>>>>
            \o (IF Truthy(self.config.clientSecret)
                  THEN <<<<"client_secret", FormEncode(self.config.clientSecret.v)>>>>
                  ELSE <<>>)]

\* getToken from the point fetch settles with `resp`.
GetTokenResume(resp) ==
  IF resp.kind = "reject" THEN Throw(resp.thrown)
  ELSE IF ~resp.ok
    THEN Throw(Err(<<"Token request failed: ">> \o resp.statusText))
  ELSE IF resp.body.parses THEN Return(resp.body.value)
  ELSE Throw(resp.body.thrown)

\* Mutant: the state is compared with the configured one, not the stored one.
StateRejectedAgainstConfig(self, state) ==
  ~Truthy(state) \/ ~StrictEq(state, self.config.state)

\* Mutant: the state is only required to be there, not compared.
StateRejectedUncompared(self, state) == ~Truthy(state)

\* The state check: `!state || state !== this.state`.
StateRejected(self, state) == ~Truthy(state) \/ ~StrictEq(state, self.state)

\* Mutant: only an empty code is refused, a missing one goes through.
CodeMissingEmptyOnly(code) == StrictEq(code, Str(<<>>))

\* The code check: `!code`.
CodeMissing(code) == ~Truthy(code)

\* Mutant: the description is always String(error).
TokenErrorDescriptionString(e) == JsString(e)

\* The errorDescription of a token_error:
\* `error instanceof Error ? error.message : String(error)`.
TokenErrorDescription(e) == IF e.t = "error" THEN e.v ELSE JsString(e)

\* handleCallback up to its first suspension.
HandleCallbackStart(self, url) ==
  IF ~url.absolute THEN Throw(Err(<<"Invalid URL">>))
  ELSE
    LET params == ParseSearch(url.search)
        error == ParamsGet(params, "error")
        state == ParamsGet(params, "state")
        code == ParamsGet(params, "code")
    IN IF Truthy(error)
         THEN Return(CallbackResult(Undefined, error,
                JsOr(ParamsGet(params, "error_description"), Undefined)))
       ELSE IF StateRejected(self, state)
         THEN Return(CallbackResult(Undefined, Str(<<"invalid_state">>),
                Str(<<"State parameter does not match">>)))
       ELSE IF CodeMissing(code)
         THEN Return(CallbackResult(Undefined, Str(<<"invalid_response">>),
                Str(<<"Authorization code is missing">>)))
       ELSE Await(GetTokenRequest(self, code))

\* Mutant: the token response is dropped from the result of a success.
HandleCallbackResumeDropsBody(resp) ==
  LET got == GetTokenResume(resp)
  IN IF got.kind = "return"
       THEN Return(CallbackResult(Undefined, Undefined, Undefined))
     ELSE Return(CallbackResult(Undefined, Str(<<"token_error">>),
            Str(TokenErrorDescription(got.value))))

\* Mutant: a success needs a body with a three-segment id_token.
HandleCallbackResumeRequiresIdToken(resp) ==
  LET got == GetTokenResume(resp)
      wellFormed ==
        /\ got.value.t = "obj"
        /\ "id_token" \in DOMAIN got.value.v
        /\ "token" \in DOMAIN got.value.v.id_token
        /\ Len(got.value.v.id_token.token.parts) = 3
  IN IF got.kind = "return"
       THEN IF wellFormed
              THEN Return(CallbackResult(got.value, Undefined, Undefined))
            ELSE Return(CallbackResult(Undefined, Str(<<"invalid_token">>),
                   Undefined))
     ELSE Return(CallbackResult(Undefined, Str(<<"token_error">>),
            Str(TokenErrorDescription(got.value))))

\* handleCallback from the point `await this.getToken(code)` settles.
HandleCallbackResume(resp) ==
  LET got == GetTokenResume(resp)
  IN IF got.kind = "return"
       THEN Return(CallbackResult(got.value, Undefined, Undefined))
     ELSE Return(CallbackResult(Undefined, Str(<<"token_error">>),
            Str(TokenErrorDescription(got.value))))

\* ------------------------------------------------------- validateIdToken

Bool(b) == [t |-> "bool", v |-> b]

\* One segment of a token, as atob and JSON.parse see it: "opaque" is not
\* base64 (atob throws), "text" is base64 of something that is no JSON
\* (JSON.parse throws), "json" is base64 of the JSON text of `value`.
Segment(kind, value) == [kind |-> kind, value |-> value]

\* JSON.parse(atob(segment)).
DecodeSegment(seg) ==
  IF seg.kind = "opaque" THEN Throw(Err(<<"Invalid character">>))
  ELSE IF seg.kind = "text" THEN Throw(Err(<<"Unexpected token">>))
  ELSE Return(seg.value)

\* payload.<name>: reading a property of null or undefined throws, of any
\* other primitive gives undefined.
PropGet(x, name) ==
  IF x.t \in {"null", "undefined"}
    THEN Throw(Err(<<"Cannot read properties">>))
  ELSE IF x.t = "obj" THEN Return(x.v[name])
  ELSE Return(Undefined)

\* Array.isArray(x) and x.includes(y).
IsArray(x) == x.t = "arr"
Includes(x, y) == \E i \in 1..Len(x.v) : StrictEq(x.v[i], y)

\* `payload.exp <= now`
Expired(exp, now) == JsLessEq(exp, Num(now))

\* Mutant: the issuer has to be the one expected.
IssuerMissingOrUnexpected(iss) ==
  ~Truthy(iss) \/ ~StrictEq(iss, Str(<<"https://op.example">>))

\* `!payload.iss`
IssuerMissing(iss) == ~Truthy(iss)

\* Mutant: an array is accepted without looking for the clientId in it.
AudienceRejectedArraysPass(self, aud) ==
  ~StrictEq(aud, self.config.clientId) /\ ~IsArray(aud)

\* `payload.aud !== clientId && (!Array.isArray(payload.aud) ||
\*  !payload.aud.includes(clientId))`
AudienceRejected(self, aud) ==
  /\ ~StrictEq(aud, self.config.clientId)
  /\ (~IsArray(aud) \/ ~Includes(aud, self.config.clientId))

\* Mutant: a nonce claim is demanded, a payload without one is refused.
NonceRejectedWhenAbsent(self, nonce) == ~StrictEq(nonce, self.nonce)

\* `payload.nonce && payload.nonce !== this.nonce`
NonceRejected(self, nonce) == Truthy(nonce) /\ ~StrictEq(nonce, self.nonce)

\* Math.floor(Date.now() / 1000) when the clock shows `c` half seconds.
NowSeconds(c) == (c * HalfSecondMs) \div MsPerSecond

\* The try block of validateIdToken(idToken) at time `now` (seconds);
\* idToken.parts is what idToken.split(".") gives.  It returns true or
\* false, or throws where atob, JSON.parse or a property read throws.
ValidateIdTokenTry(self, idToken, now) ==
  IF Len(idToken.parts) # 3 THEN Return(FALSE)
  ELSE
    LET decoded == DecodeSegment(idToken.parts[2])
    IN IF decoded.kind = "throw" THEN decoded
       ELSE
         LET payload == decoded.value
         IN IF PropGet(payload, "exp").kind = "throw" THEN PropGet(payload, "exp")
            ELSE IF Expired(PropGet(payload, "exp").value, now) THEN Return(FALSE)
            ELSE IF IssuerMissing(PropGet(payload, "iss").value) THEN Return(FALSE)
            ELSE IF AudienceRejected(self, PropGet(payload, "aud").value)
              THEN Return(FALSE)
            ELSE IF NonceRejected(self, PropGet(payload, "nonce").value)
              THEN Return(FALSE)
            ELSE Return(TRUE)

\* Mutant: the catch block throws the error on.
ValidateIdTokenCatchRethrows(tried) ==
  IF tried.kind = "throw" THEN tried ELSE Return(Bool(tried.value))

\* The catch block of validateIdToken: whatever the try block throws is
\* logged and false is returned.
ValidateIdTokenCatch(tried) ==
  IF tried.kind = "throw" THEN Return(Bool(FALSE)) ELSE Return(Bool(tried.value))

\* validateIdToken(idToken) at time `now`: how the call ends.
ValidateIdToken(self, idToken, now) ==
  ValidateIdTokenCatch(ValidateIdTokenTry(self, idToken, now))

\* ------------------------------------------------ generateAuthorizationUrl

\* if (this.config.x) { params.append(name, this.config.x) }
OptionalParam(name, value) ==
  IF Truthy(value) THEN <<<<name, value.v>>>> ELSE <<>>

\* Mutant: max_age is left out when maxAge is 0.
MaxAgeParamWhenTruthy(maxAge) ==
  IF Truthy(maxAge) THEN <<<<"max_age", NumberToString(maxAge.v)>>>> ELSE <<>>

\* if (this.config.maxAge !== undefined) {
\*   params.append("max_age", this.config.maxAge.toString()) }
MaxAgeParam(maxAge) ==
  IF ~StrictEq(maxAge, Undefined)
    THEN <<<<"max_age", NumberToString(maxAge.v)>>>>
  ELSE <<>>

\* Mutant: every call after the first sends a nonce of its own.
NonceParamFreshPerCall(self) ==
  IF history.urls = {} THEN <<<<"nonce", self.nonce.v>>>>
  ELSE <<<<"nonce", <<"fresh">>>>>>

\* nonce: this.nonce
NonceParam(self) == <<<<"nonce", self.nonce.v>>>>

\* rp.generateAuthorizationUrl(): the endpoint, "?", and the serialized
\* parameters.
GenerateAuthorizationUrl(self) ==
  self.config.authorizationEndpoint.v \o <<"?">>
  \o SerializeParams(
       <<<<"client_id", self.config.clientId.v>>,
         <<"redirect_uri", self.config.redirectUri.v>>,
         <<"response_type", self.config.responseType.v>>,
         <<"scope", self.config.scope.v>>,
         <<"state", self.state.v>>>>
       \o NonceParam(self)
       \o OptionalParam("response_mode", self.config.responseMode)
       \o OptionalParam("display", self.config.display)
       \o OptionalParam("prompt", self.config.prompt)
       \o MaxAgeParam(self.config.maxAge)
       \o OptionalParam("ui_locales", self.config.uiLocales)
       \o OptionalParam("id_token_hint", self.config.idTokenHint)
       \o OptionalParam("login_hint", self.config.loginHint)
       \o OptionalParam("acr_values", self.config.acrValues))

\* ------------------------------------------------------------ refreshToken

\* Mutant: the refresh request carries the redirect_uri as well.
RefreshTokenRequestWithRedirectUri(self, refreshToken) ==
  [url |-> self.config.tokenEndpoint,
   method |-> "POST",
   contentType |-> "application/x-www-form-urlencoded",
   body |-> <<<<"grant_type", FormEncode(<<"refresh_token">>)>>,
              <<"refresh_token", FormEncode(JsString(refreshToken))>>,
              <<"redirect_uri", FormEncode(self.config.redirectUri.v)>>,
              <<"client_id", FormEncode(self.config.clientId.v)>>>>
            \o (IF Truthy(self.config.clientSecret)
                  THEN <<<<"client_secret", FormEncode(self.config.clientSecret.v)>>>>
                  ELSE <<>>)]

\* refreshToken up to its `await fetch`: the request it issues.
RefreshTokenRequest(self, refreshToken) ==
  [url |-> self.config.tokenEndpoint,
   method |-> "POST",
   contentType |-> "application/x-www-form-urlencoded",
   body |-> <<<<"grant_type", FormEncode(<<"refresh_token">>)>>,
              <<"refresh_token", FormEncode(JsString(refreshToken))>>,
              <<"client_id", FormEncode(self.config.clientId.v)>>>>
            \o (IF Truthy(self.config.clientSecret)
                  THEN <<<<"client_secret", FormEncode(self.config.clientSecret.v)>>>>
                  ELSE <<>>)]

\* Mutant: the body is read whatever the status of the response.
RefreshTokenResumeIgnoresStatus(resp) ==
  IF resp.kind = "reject" THEN Throw(resp.thrown)
  ELSE IF resp.body.parses THEN Return(resp.body.value)
  ELSE Throw(resp.body.thrown)

\* refreshToken from the point fetch settles with `resp`.
RefreshTokenResume(resp) ==
  IF resp.kind = "reject" THEN Throw(resp.thrown)
  ELSE IF ~resp.ok
    THEN Throw(Err(<<"Token refresh failed: ">> \o resp.statusText))
  ELSE IF resp.body.parses THEN Return(resp.body.value)
  ELSE Throw(resp.body.thrown)

\* ------------------------------------------------------------- getUserInfo

\* fetch(this.config.userinfoEndpoint,
\*       { headers: { Authorization: `Bearer ${accessToken}` } })
GetUserInfoRequest(self, accessToken) ==
  [url |-> self.config.userinfoEndpoint,
   method |-> "GET",
   authorization |-> <<"Bearer ">> \o JsString(accessToken)]

\* Mutant: the request is issued whether or not the endpoint is configured.
GetUserInfoStartUnguarded(self, accessToken) ==
  Await(GetUserInfoRequest(self, accessToken))

\* getUserInfo up to its `await fetch`.
GetUserInfoStart(self, accessToken) ==
  IF ~Truthy(self.config.userinfoEndpoint)
    THEN Throw(Err(<<"userinfoEndpoint is not configured">>))
  ELSE Await(GetUserInfoRequest(self, accessToken))

\* getUserInfo from the point fetch settles with `resp`.
GetUserInfoResume(resp) ==
  IF resp.kind = "reject" THEN Throw(resp.thrown)
  ELSE IF ~resp.ok
    THEN Throw(Err(<<"UserInfo request failed: ">> \o resp.statusText))
  ELSE IF resp.body.parses THEN Return(resp.body.value)
  ELSE Throw(resp.body.thrown)

\* ------------------------------------------------------- the stored fields

\* Mutant: a callback locks the instance against further callbacks.
SelfAfterStateLocked(op, self) ==
  IF op = "handleCallback" THEN [self EXCEPT !.state = Str(<<"locked">>)] ELSE self

\* Mutant: handleCallback uses the state up, so that it cannot be replayed.
SelfAfterStateConsumed(op, self) ==
  IF op = "handleCallback" THEN [self EXCEPT !.state = Str(<<>>)] ELSE self

\* The instance after a call of `op`: config, state and nonce are private
\* fields that only the constructor assigns; no method writes to them.
SelfAfter(op, self) == self

\* ----------------------------------------------------------------- inputs

\* A parameter of a query: left out, or there with a raw (encoded) value.
Absent == [t |-> "absent"]
Raw(s) == [t |-> "raw", v |-> s]

\* One parameter of a search string, if it is there.
Param(name, x) == IF x = Absent THEN <<>> ELSE <<<<name, x.v>>>>

\* The search part of a callback URL: the pairs of the parameters that are
\* there, raw (still encoded), in the order error, error_description, code,
\* state, and once more `state` when `again` is there.
Search(error, description, code, state, again) ==
  Param("error", error) \o Param("error_description", description)
  \o Param("code", code) \o Param("state", state) \o Param("state", again)

RawErrors == {Absent, Raw(<<>>), Raw(<<"access_denied">>)}
RawDescriptions ==
  {Absent, Raw(<<>>), Raw(<<"User", "+", "denied", "+", "access">>)}
RawCodes == {Absent, Raw(<<>>), Raw(<<"test-code">>)}
RawStates ==
  {Absent, Raw(<<>>), Raw(<<"wrong-state">>), Raw(<<"s", " ", "+">>)}
  \cup {Raw(FormEncode(SuppliedState))}
  \cup {Raw(FormEncode(r)) : r \in RandomStrings}

\* The strings handleCallback is called with: absolute URLs, and relative
\* request paths (req.url of an HTTP server) with the same queries.
CallbackUrls ==
  {[absolute |-> a, search |-> Search(e, d, c, s, Absent)] :
     a \in BOOLEAN, e \in RawErrors, d \in RawDescriptions,
     c \in RawCodes, s \in RawStates}
  \cup {[absolute |-> TRUE,
         search |-> Search(Absent, Absent, Raw(<<"test-code">>),
                           Raw(<<"wrong-state">>), s)] :
          s \in RawStates \ {Absent}}

\* The configuration every constructor input of the second specification
\* is a variant of.
BaseConfig ==
  Config(Str(ClientId), Str(ClientSecret), Str(SuppliedState), Str(SuppliedNonce))

\* An authorization endpoint that has a query component of its own.
QueryEndpoint == <<"https://op.example/authorize", "?", "tenant", "=", "t">>
UserinfoEndpoint == <<"https://op.example/userinfo">>

\* Configurations with each required field left out, empty, or there.
RequiredVariants ==
  {[BaseConfig EXCEPT !.clientId = a, !.redirectUri = b,
                      !.authorizationEndpoint = c, !.tokenEndpoint = d] :
     a \in {Undefined, Str(<<>>), Str(ClientId)},
     b \in {Undefined, Str(<<>>), Str(RedirectUri)},
     c \in {Undefined, Str(<<>>), Str(AuthorizationEndpoint)},
     d \in {Undefined, Str(<<>>), Str(TokenEndpoint)}}

\* Configurations with responseType and scope left out, empty, or there.
DefaultVariants ==
  {[BaseConfig EXCEPT !.responseType = t, !.scope = s] :
     t \in {Undefined, Str(<<>>), Str(<<"code", " ", "id_token">>)},
     s \in {Undefined, Str(<<>>), Str(<<"openid">>)}}

\* The optional request parameters that are strings, and a value for each.
OptionFields ==
  {"responseMode", "display", "prompt", "uiLocales", "idTokenHint",
   "loginHint", "acrValues"}
OptionValue(field) ==
  CASE field = "responseMode" -> Str(<<"form_post">>)
    [] field = "display" -> Str(<<"popup">>)
    [] field = "prompt" -> Str(<<"login", " ", "consent">>)
    [] field = "uiLocales" -> Str(<<"ja">>)
    [] field = "idTokenHint" -> Str(<<"previous-id-token">>)
    [] field = "loginHint" -> Str(<<"user", "+", "tag@example.com">>)
    [] field = "acrValues" -> Str(<<"a", "&", "b", "=", "1">>)

\* Which of them a configuration sets: none, all, all to the empty string,
\* one alone, or all but one that is empty.
OptionChoices ==
  {[f \in OptionFields |-> Undefined],
   [f \in OptionFields |-> OptionValue(f)],
   [f \in OptionFields |-> Str(<<>>)]}
  \cup {[f \in OptionFields |-> IF f = g THEN OptionValue(f) ELSE Undefined] :
          g \in OptionFields}
  \cup {[f \in OptionFields |-> IF f = g THEN Str(<<>>) ELSE OptionValue(f)] :
          g \in OptionFields}
MaxAges == {Undefined, Num(0), Num(3600)}

OptionVariants ==
  {[BaseConfig EXCEPT !.responseMode = o["responseMode"],
                      !.display = o["display"],
                      !.prompt = o["prompt"],
                      !.maxAge = m,
                      !.uiLocales = o["uiLocales"],
                      !.idTokenHint = o["idTokenHint"],
                      !.loginHint = o["loginHint"],
                      !.acrValues = o["acrValues"]] :
     o \in OptionChoices, m \in MaxAges}

\* Configurations with and without a userinfo endpoint and a client secret,
\* and with an authorization endpoint that has a query or has none.
EndpointVariants ==
  {[BaseConfig EXCEPT !.authorizationEndpoint = a, !.userinfoEndpoint = u,
                      !.clientSecret = c] :
     a \in {Str(AuthorizationEndpoint), Str(QueryEndpoint)},
     u \in {Undefined, Str(<<>>), Str(UserinfoEndpoint)},
     c \in {Undefined, Str(<<>>), Str(ClientSecret)}}

\* Configurations with state and nonce left out, empty, or there.
SecretVariants ==
  {[BaseConfig EXCEPT !.state = s, !.nonce = n] :
     s \in {Undefined, Str(<<>>), Str(SuppliedState)},
     n \in {Undefined, Str(SuppliedNonce)}}

\* The configurations the constructor is called with.
ConstructorConfigs ==
  RequiredVariants \cup DefaultVariants \cup OptionVariants
  \cup EndpointVariants \cup SecretVariants

\* The tokens refreshToken and getUserInfo are called with.
RefreshTokens ==
  {Str(<<"old-refresh-token">>), Str(<<>>), Str(<<"r", "+", "&", "=">>)}
AccessTokens == {Str(<<"test-access-token">>), Str(<<>>)}

\* A second authorization code, and the callback URLs of the specification
\* with a provider: absolute, with or without an error, with one of the two
\* codes or none, and any state.
SecondCode == <<"code-2">>
ReplayUrls ==
  {[absolute |-> TRUE, search |-> Search(e, Absent, c, s, Absent)] :
     e \in {Absent, Raw(<<"access_denied">>)},
     c \in {Absent, Raw(<<"test-code">>), Raw(SecondCode)},
     s \in RawStates}

\* The configurations of that specification: a supplied and a generated state.
ReplayConfigs ==
  {Config(Str(ClientId), Undefined, s, Str(SuppliedNonce)) :
     s \in {Undefined, Str(SuppliedState)}}

\* The inputs of the specification with several callers: configurations
\* with a userinfo endpoint and a supplied or a generated state, callback
\* URLs with the right or a wrong state, one token of each kind, and an ID
\* token that is valid and one that is not a token.
ConcurrentConfigs ==
  {[BaseConfig EXCEPT !.userinfoEndpoint = Str(UserinfoEndpoint), !.state = s] :
     s \in {Undefined, Str(SuppliedState)}}
ConcurrentUrls ==
  {[absolute |-> a,
    search |-> Search(Absent, Absent, Raw(<<"test-code">>), s, Absent)] :
     a \in BOOLEAN,
     s \in {Raw(FormEncode(SuppliedState)), Raw(<<"wrong-state">>)}
           \cup {Raw(FormEncode(r)) : r \in RandomStrings}}
ConcurrentIdTokens ==
  {[parts |-> <<Segment("json", Obj([alg |-> Str(<<"HS256">>)])),
               Segment("json", Obj([exp |-> Num(MaxExp),
                                    iss |-> Str(<<"https://op.example">>),
                                    aud |-> Str(ClientId),
                                    nonce |-> Str(SuppliedNonce)])),
               Segment("opaque", Undefined)>>],
   [parts |-> <<>>]}

\* The codes getToken is called with.
Codes == {Str(<<"test-code">>), Str(<<>>)}

\* What the token endpoint can answer with: JSON bodies, parsed.
TokenBody(idToken) ==
  Obj([access_token |-> Str(<<"at">>), token_type |-> Str(<<"Bearer">>),
       id_token |-> idToken])

\* An id_token string of a body, with what split(".") makes of it.
Jwt(idToken) == [t |-> "str", v |-> <<"jwt">>, token |-> idToken]

\* The claims of the tokens a token endpoint issues: good ones, or expired,
\* for another client, or with another nonce.
IssuedPayload(exp, aud, nonce) ==
  Obj([exp |-> Num(exp), iss |-> Str(<<"https://op.example">>),
       aud |-> Str(aud), nonce |-> nonce])
IssuedSegments(payload) ==
  <<Segment("json", Obj([alg |-> Str(<<"HS256">>)])),
    Segment("json", payload),
    Segment("opaque", Undefined)>>
IssuedTokens ==
  {[parts |-> IssuedSegments(IssuedPayload(MaxExp, ClientId, Undefined))],
   [parts |-> IssuedSegments(IssuedPayload(0, ClientId, Undefined))],
   [parts |-> IssuedSegments(IssuedPayload(MaxExp, OtherClientId, Undefined))],
   [parts |-> IssuedSegments(IssuedPayload(MaxExp, ClientId, Str(<<"wrong-nonce">>)))],
   [parts |-> SubSeq(IssuedSegments(IssuedPayload(MaxExp, ClientId, Undefined)), 1, 2)]}

JsonBodies ==
  {Null, TokenBody(Undefined), TokenBody(Str(<<"h.p.s">>))}
  \cup {TokenBody(Jwt(idToken)) : idToken \in IssuedTokens}

Parsed(v) == [parses |-> TRUE, value |-> v, thrown |-> Undefined]
Unparseable ==
  [parses |-> FALSE, value |-> Undefined,
   thrown |-> Err(<<"Unexpected end of JSON input">>)]

\* How an `await fetch(...)` can settle: a response (ok or not, with a body
\* that response.json() parses or not), or a rejection.
Response(ok, statusText, body) ==
  [kind |-> "response", ok |-> ok, statusText |-> statusText, body |-> body,
   thrown |-> Undefined]
Rejection(e) ==
  [kind |-> "reject", ok |-> FALSE, statusText |-> <<>>, body |-> Unparseable,
   thrown |-> e]
FetchOutcomes ==
  {Response(TRUE, <<"OK">>, Parsed(v)) : v \in JsonBodies}
  \cup {Response(TRUE, <<"OK">>, Unparseable)}
  \cup {Response(FALSE, t, Unparseable) : t \in {<<"Unauthorized">>, <<>>}}
  \cup {Response(FALSE, <<"Bad Request">>, Parsed(Null))}
  \cup {Rejection(e) : e \in {Err(<<"fetch failed">>), Str(<<"aborted">>), Undefined}}

RECURSIVE SeqsUpTo(_, _)
\* The sequences over S of length at most n.
SeqsUpTo(S, n) ==
  IF n = 0 THEN {<<>>}
  ELSE LET shorter == SeqsUpTo(S, n - 1)
       IN shorter \cup {Append(q, x) : q \in {r \in shorter : Len(r) = n - 1}, x \in S}

ExpClaims ==
  {Undefined, Null, Str(<<"soon">>)} \cup {Num(n) : n \in 0..MaxExp}
IssClaims == {Undefined, Str(<<>>), Str(<<"https://op.example">>)}
AudClaims ==
  {Undefined, Null, Num(7), Str(ClientId), Str(OtherClientId)}
  \cup {Arr(a) : a \in SeqsUpTo({Str(ClientId), Str(OtherClientId)}, MaxAud)}
NonceClaims ==
  {Undefined, Str(<<>>), Str(SuppliedNonce), Str(<<"wrong-nonce">>)}
  \cup {Str(r) : r \in RandomStrings}

Payloads ==
  {Obj([exp |-> e, iss |-> i, aud |-> a, nonce |-> n]) :
     e \in ExpClaims, i \in IssClaims, a \in AudClaims, n \in NonceClaims}

Header == Segment("json", Obj([alg |-> Str(<<"HS256">>)]))
Signatures == {Segment("opaque", Undefined)}

\* Tokens nobody signed: any header (not base64, another algorithm), any
\* signature segment, an issuer of their own.
Headers ==
  {Header, Segment("opaque", Undefined),
   Segment("json", Obj([alg |-> Str(<<"none">>)]))}
ForgedSignatures == {Segment("opaque", Undefined), Segment("text", Undefined)}
ForgedPayloads ==
  {Obj([exp |-> Num(e), iss |-> Str(i), aud |-> Str(a), nonce |-> Undefined]) :
     e \in {0, MaxExp},
     i \in {<<"https://op.example">>, <<"https://evil.example">>},
     a \in {ClientId, OtherClientId}}
ForgedTokens ==
  {[parts |-> <<h, Segment("json", p), s>>] :
     h \in Headers, p \in ForgedPayloads, s \in ForgedSignatures}

\* The strings validateIdToken is called with, split on ".".
IdTokens ==
  ForgedTokens \cup
  {[parts |-> <<Header, Segment("json", p), s>>] : p \in Payloads, s \in Signatures}
  \cup {[parts |-> <<Header, m, s>>] :
          m \in {Segment("opaque", Undefined), Segment("text", Undefined),
                 Segment("json", Null), Segment("json", Num(1)),
                 Segment("json", Str(<<"payload">>)), Segment("json", Arr(<<>>))},
          s \in Signatures}
  \cup {[parts |-> q] : q \in {<<>>, <<Header>>, <<Header, Header>>,
                               <<Header, Header, Header, Header>>}}

\* --------------------------------------------------------------- actions

IdleCall ==
  [pc |-> "idle", op |-> "none", arg |-> Undefined, at |-> 0,
   reqs |-> <<>>, resp |-> Undefined, result |-> Undefined]

\* A call that ran its synchronous part `step`: it has returned, has thrown
\* (rejected), or is suspended at the fetch it issued.
Started(op, arg, step) ==
  [pc |-> CASE step.kind = "return" -> "returned"
            [] step.kind = "throw" -> "thrown"
            [] OTHER -> "fetching",
   op |-> op, arg |-> arg, at |-> NowSeconds(clock),
   reqs |-> IF step.kind = "fetch" THEN <<step.value>> ELSE <<>>,
   resp |-> Undefined,
   result |-> IF step.kind = "fetch" THEN Undefined ELSE step.value]

\* What a suspended call of `op` does when its fetch settles with `resp`.
Resume(op, resp) ==
  CASE op = "handleCallback" -> HandleCallbackResume(resp)
    [] op = "getToken" -> GetTokenResume(resp)
    [] op = "refreshToken" -> RefreshTokenResume(resp)
    [] op = "getUserInfo" -> GetUserInfoResume(resp)

\* The synchronous part of a call of method `op` with argument `arg` on
\* `self`, `now` being Math.floor(Date.now() / 1000).
Step(op, self, arg, now) ==
  CASE op = "handleCallback" -> HandleCallbackStart(self, arg)
    [] op = "getToken" -> Await(GetTokenRequest(self, arg))
    [] op = "refreshToken" -> Await(RefreshTokenRequest(self, arg))
    [] op = "getUserInfo" -> GetUserInfoStart(self, arg)
    [] op = "validateIdToken" -> ValidateIdToken(self, arg, now)
    [] op = "generateAuthorizationUrl" -> Return(Str(GenerateAuthorizationUrl(self)))

\* What the callers have seen so far: the instance as the constructor left
\* it, the URLs generateAuthorizationUrl has returned, whether it has been
\* called more than once, how the handleCallback calls they took the
\* outcome of have ended, and whether a call has come to its end while
\* another one was suspended at its request.
Seen(built, urls, repeated, outcomes, overlapped) ==
  [built |-> built, urls |-> urls, repeated |-> repeated,
   outcomes |-> outcomes, overlapped |-> overlapped]

\* The authorization server: the codes its token endpoint has redeemed.
Redeemed(codes) == [consumed |-> codes]

Init ==
  /\ \E config \in Configs, r1 \in RandomStrings, r2 \in RandomStrings :
       /\ Construct(config, r1, r2).ok
       /\ rp = Construct(config, r1, r2).self
  /\ clock = 0
  /\ calls = [i \in 1..1 |-> IdleCall]
  /\ history = Seen(rp, {}, FALSE, {}, FALSE)
  /\ provider = Redeemed({})

\* A caller calls method `op` of the instance with one of `args`.
Invoke(i, op, args) ==
  /\ rp # NoInstance
  /\ calls[i].pc = "idle"
  /\ \E arg \in args :
       calls' = [calls EXCEPT ![i] =
         Started(op, arg, Step(op, rp, arg, NowSeconds(clock)))]
  /\ rp' = SelfAfter(op, rp)
  /\ history' =
       IF op = "generateAuthorizationUrl"
         THEN Seen(history.built,
                   history.urls \cup {Str(GenerateAuthorizationUrl(rp))},
                   history.urls # {}, history.outcomes, history.overlapped)
       ELSE history
  /\ UNCHANGED <<clock, provider>>

\* rp.handleCallback(url)
HandleCallbackCall(i) == Invoke(i, "handleCallback", CallbackUrls)

\* rp.getToken(code)
GetTokenCall(i) == Invoke(i, "getToken", Codes)

\* rp.validateIdToken(idToken)
ValidateIdTokenCall(i) == Invoke(i, "validateIdToken", IdTokens)

\* new OpenIDConnectRP(config): it throws, or the caller holds the instance.
ConstructCall(i) ==
  /\ rp = NoInstance
  /\ calls[i].pc = "idle"
  /\ \E config \in ConstructorConfigs, r1 \in RandomStrings, r2 \in RandomStrings :
       LET made == Construct(config, r1, r2)
       IN /\ calls' = [calls EXCEPT ![i] =
                 Started("new", config,
                         IF made.ok THEN Return(made.self) ELSE Throw(made.thrown))]
          /\ rp' = IF made.ok THEN made.self ELSE NoInstance
  /\ history' = Seen(rp', {}, FALSE, {}, FALSE)
  /\ UNCHANGED <<clock, provider>>

\* rp.generateAuthorizationUrl()
GenerateAuthorizationUrlCall(i) ==
  Invoke(i, "generateAuthorizationUrl", {Undefined})

\* rp.refreshToken(refreshToken)
RefreshTokenCall(i) == Invoke(i, "refreshToken", RefreshTokens)

\* rp.getUserInfo(accessToken)
GetUserInfoCall(i) == Invoke(i, "getUserInfo", AccessTokens)

\* The fetch a call is suspended at settles, and the call runs to its end.
FetchSettles(i) ==
  /\ calls[i].pc = "fetching"
  /\ \E resp \in FetchOutcomes :
       LET step == Resume(calls[i].op, resp)
       IN calls' = [calls EXCEPT ![i] =
            [@ EXCEPT !.pc = IF step.kind = "return" THEN "returned" ELSE "thrown",
                      !.resp = resp,
                      !.result = step.value]]
  /\ UNCHANGED <<rp, clock, history, provider>>

\* The caller has taken the outcome of a finished call.
Finish(i) ==
  /\ calls[i].pc \in {"returned", "thrown"}
  /\ calls' = [calls EXCEPT ![i] = IdleCall]
  /\ UNCHANGED <<rp, clock, history, provider>>

\* Half a second passes.
Tick ==
  /\ clock < MaxClock
  /\ clock' = clock + 1
  /\ UNCHANGED <<rp, calls, history, provider>>

Next ==
  \/ \E i \in DOMAIN calls : HandleCallbackCall(i)
  \/ \E i \in DOMAIN calls : GetTokenCall(i)
  \/ \E i \in DOMAIN calls : ValidateIdTokenCall(i)
  \/ \E i \in DOMAIN calls : FetchSettles(i)
  \/ \E i \in DOMAIN calls : Finish(i)
  \/ Tick

Spec == Init /\ [][Next]_vars

\* The second specification: the caller first has to construct the instance,
\* with any configuration, and then calls any of its six methods.
InitLifecycle ==
  /\ rp = NoInstance
  /\ clock = 0
  /\ calls = [i \in 1..1 |-> IdleCall]
  /\ history = Seen(NoInstance, {}, FALSE, {}, FALSE)
  /\ provider = Redeemed({})

NextLifecycle ==
  \/ \E i \in DOMAIN calls : ConstructCall(i)
  \/ \E i \in DOMAIN calls : GenerateAuthorizationUrlCall(i)
  \/ \E i \in DOMAIN calls : HandleCallbackCall(i)
  \/ \E i \in DOMAIN calls : GetTokenCall(i)
  \/ \E i \in DOMAIN calls : RefreshTokenCall(i)
  \/ \E i \in DOMAIN calls : ValidateIdTokenCall(i)
  \/ \E i \in DOMAIN calls : GetUserInfoCall(i)
  \/ \E i \in DOMAIN calls : FetchSettles(i)
  \/ \E i \in DOMAIN calls : Finish(i)

SpecLifecycle == InitLifecycle /\ [][NextLifecycle]_vars

\* The third specification: handleCallback calls, one after the other,
\* against an authorization server that redeems each code at most once.

\* The code a token request asks to redeem.
RequestedCode(request) == ParamsGet(ParseSearch(request.body), "code")

\* What the token endpoint answers to a code it has redeemed before.
Refusal ==
  Response(FALSE, <<"Bad Request">>,
           Parsed(Obj([error |-> Str(<<"invalid_grant">>)])))
\* What it answers to a code it redeems.
Grant == Response(TRUE, <<"OK">>, Parsed(TokenBody(Str(<<"h.p.s">>))))

\* A call whose fetch settled with `resp`, run to its end.
Settled(call, resp) ==
  LET step == Resume(call.op, resp)
  IN [call EXCEPT !.pc = IF step.kind = "return" THEN "returned" ELSE "thrown",
                  !.resp = resp,
                  !.result = step.value]

InitReplay ==
  /\ \E config \in ReplayConfigs, r1 \in RandomStrings, r2 \in RandomStrings :
       /\ Construct(config, r1, r2).ok
       /\ rp = Construct(config, r1, r2).self
  /\ clock = 0
  /\ calls = [i \in 1..1 |-> IdleCall]
  /\ history = Seen(rp, {}, FALSE, {}, FALSE)
  /\ provider = Redeemed({})

\* rp.handleCallback(url), with the callback URLs of this specification.
CallbackArrives(i) == Invoke(i, "handleCallback", ReplayUrls)

\* The token endpoint answers the request of call i: it redeems the code if
\* it has not redeemed it before, and refuses it otherwise.
ProviderAnswers(i) ==
  /\ calls[i].pc = "fetching"
  /\ LET code == RequestedCode(calls[i].reqs[1])
     IN /\ calls' = [calls EXCEPT ![i] =
               Settled(@, IF code \in provider.consumed THEN Refusal ELSE Grant)]
        /\ provider' = Redeemed(provider.consumed \cup {code})
  /\ UNCHANGED <<rp, clock, history>>

\* The request of call i does not reach the token endpoint: fetch rejects.
RequestLost(i) ==
  /\ calls[i].pc = "fetching"
  /\ calls' = [calls EXCEPT ![i] = Settled(@, Rejection(Err(<<"fetch failed">>)))]
  /\ UNCHANGED <<rp, clock, history, provider>>

\* The caller takes the outcome of a finished handleCallback call and
\* remembers the error it reported (undefined for a success).
FinishNoted(i) ==
  /\ calls[i].pc = "returned"
  /\ calls' = [calls EXCEPT ![i] = IdleCall]
  /\ history' = Seen(history.built, history.urls, history.repeated,
                     history.outcomes \cup {calls[i].result.error},
                     history.overlapped)
  /\ UNCHANGED <<rp, clock, provider>>

NextReplay ==
  \/ \E i \in DOMAIN calls : CallbackArrives(i)
  \/ \E i \in DOMAIN calls : ProviderAnswers(i)
  \/ \E i \in DOMAIN calls : RequestLost(i)
  \/ \E i \in DOMAIN calls : FinishNoted(i)

SpecReplay == InitReplay /\ [][NextReplay]_vars

\* The fourth specification: several callers use one instance at the same
\* time; a call suspended at its request leaves the others free to run.

InitConcurrent ==
  /\ \E config \in ConcurrentConfigs, r1 \in RandomStrings, r2 \in RandomStrings :
       /\ Construct(config, r1, r2).ok
       /\ rp = Construct(config, r1, r2).self
  /\ clock = 0
  /\ calls = [i \in 1..Callers |-> IdleCall]
  /\ history = Seen(rp, {}, FALSE, {}, FALSE)
  /\ provider = Redeemed({})

ConcurrentGenerate(i) == Invoke(i, "generateAuthorizationUrl", {Undefined})
ConcurrentCallback(i) == Invoke(i, "handleCallback", ConcurrentUrls)
ConcurrentGetToken(i) == Invoke(i, "getToken", {Str(<<"test-code">>)})
ConcurrentRefresh(i) == Invoke(i, "refreshToken", {Str(<<"old-refresh-token">>)})
ConcurrentValidate(i) == Invoke(i, "validateIdToken", ConcurrentIdTokens)
ConcurrentUserInfo(i) == Invoke(i, "getUserInfo", {Str(<<"test-access-token">>)})

\* The fetch of call i settles, possibly while other calls are suspended.
AnswerArrives(i) ==
  /\ calls[i].pc = "fetching"
  /\ \E resp \in {Grant, Refusal, Rejection(Err(<<"fetch failed">>))} :
       calls' = [calls EXCEPT ![i] = Settled(@, resp)]
  /\ history' =
       Seen(history.built, history.urls, history.repeated, history.outcomes,
            history.overlapped
              \/ \E j \in DOMAIN calls \ {i} : calls[j].pc = "fetching")
  /\ UNCHANGED <<rp, clock, provider>>

NextConcurrent ==
  \/ \E i \in DOMAIN calls : ConcurrentGenerate(i)
  \/ \E i \in DOMAIN calls : ConcurrentCallback(i)
  \/ \E i \in DOMAIN calls : ConcurrentGetToken(i)
  \/ \E i \in DOMAIN calls : ConcurrentRefresh(i)
  \/ \E i \in DOMAIN calls : ConcurrentValidate(i)
  \/ \E i \in DOMAIN calls : ConcurrentUserInfo(i)
  \/ \E i \in DOMAIN calls : AnswerArrives(i)
  \/ \E i \in DOMAIN calls : Finish(i)

SpecConcurrent == InitConcurrent /\ [][NextConcurrent]_vars

\* ------------------------------------------------------------ properties

\* The calls of handleCallback that are under way or finished.
CallbackCalls == {i \in DOMAIN calls : calls[i].op = "handleCallback"}
\* The calls of validateIdToken that have returned.
ValidateCalls == {i \in DOMAIN calls : calls[i].op = "validateIdToken"}

\* Whether the query of `url` has a parameter of that name.
HasParam(url, name) == \E k \in 1..Len(url.search) : url.search[k][1] = name
\* The decoded value of the (first) parameter of that name.
ParamOf(url, name) == ParamsGet(ParseSearch(url.search), name)

\* The query carries the instance's stored state.
StateMatches(url) ==
  HasParam(url, "state") /\ ParamOf(url, "state").v = rp.state.v
\* The query carries a non-empty code.
HasCode(url) == HasParam(url, "code") /\ ParamOf(url, "code").v # <<>>

InvalidState ==
  CallbackResult(Undefined, Str(<<"invalid_state">>),
                 Str(<<"State parameter does not match">>))
InvalidResponse ==
  CallbackResult(Undefined, Str(<<"invalid_response">>),
                 Str(<<"Authorization code is missing">>))

\* C1: a callback URL without an `error` parameter whose `state` parameter is
\* absent or differs from the stored state gives invalid_state, whatever the
\* code is, and no token request is issued.
C1_WrongStateRefused ==
  \A i \in CallbackCalls :
    LET c == calls[i]
    IN (c.arg.absolute /\ ~HasParam(c.arg, "error") /\ ~StateMatches(c.arg))
         => /\ c.pc = "returned"
            /\ c.result = InvalidState
            /\ c.reqs = <<>>

\* A wrong, non-empty state next to a valid code was refused.
C1_Witness ==
  \E i \in CallbackCalls :
    LET c == calls[i]
    IN /\ c.arg.absolute /\ ~HasParam(c.arg, "error") /\ HasCode(c.arg)
       /\ HasParam(c.arg, "state") /\ ParamOf(c.arg, "state").v # <<>>
       /\ ~StateMatches(c.arg)
       /\ c.pc = "returned" /\ c.result = InvalidState

\* C2: a callback URL whose query has an `error` parameter, with any value,
\* gives a result carrying that error (and the description, when one is
\* given), and no token request is issued.
C2_ErrorParameterWins ==
  \A i \in CallbackCalls :
    LET c == calls[i]
    IN (c.arg.absolute /\ HasParam(c.arg, "error"))
         => /\ c.pc = "returned"
            /\ c.result.error = ParamOf(c.arg, "error")
            /\ c.result.tokenResponse = Undefined
            /\ (HasParam(c.arg, "error_description")
                /\ ParamOf(c.arg, "error_description").v # <<>>
                  => c.result.errorDescription = ParamOf(c.arg, "error_description"))
            /\ c.reqs = <<>>

\* C3: handleCallback never rejects, whatever string it is given.
C3_NeverThrows == \A i \in CallbackCalls : calls[i].pc # "thrown"

\* Whether the fetch settled in a way that makes getToken fail.
ExchangeFailed(resp) ==
  resp.kind = "reject" \/ ~resp.ok \/ ~resp.body.parses

\* The message of the failure getToken ends with.
FailureMessage(resp) ==
  IF resp.kind = "reject"
    THEN CASE resp.thrown.t = "error" -> resp.thrown.v
           [] resp.thrown.t = "str" -> resp.thrown.v
           [] OTHER -> <<"undefined">>
  ELSE IF ~resp.ok THEN <<"Token request failed: ">> \o resp.statusText
  ELSE resp.body.thrown.v

\* C4: when the code exchange fails, handleCallback returns token_error with
\* the failure's message, and does not throw.
C4_ExchangeFailureReported ==
  \A i \in CallbackCalls :
    LET c == calls[i]
    IN (c.resp # Undefined /\ ExchangeFailed(c.resp))
         => /\ c.pc = "returned"
            /\ c.result = CallbackResult(Undefined, Str(<<"token_error">>),
                                         Str(FailureMessage(c.resp)))

\* A non-success status with a status text was reported as token_error.
C4_Witness ==
  \E i \in CallbackCalls :
    LET c == calls[i]
    IN /\ c.resp # Undefined /\ c.resp.kind = "response" /\ ~c.resp.ok
       /\ c.resp.statusText = <<"Unauthorized">>
       /\ c.pc = "returned"
       /\ c.result.errorDescription
            = Str(<<"Token request failed: ", "Unauthorized">>)

\* C5: no `error`, the stored state and a non-empty code: one token request
\* is issued, and a successful JSON body comes back as {tokenResponse: body}.
C5_SuccessReturnsBody ==
  \A i \in CallbackCalls :
    LET c == calls[i]
    IN (c.arg.absolute /\ ~HasParam(c.arg, "error") /\ StateMatches(c.arg)
        /\ HasCode(c.arg))
         => /\ c.pc \in {"fetching", "returned"}
            /\ Len(c.reqs) = 1
            /\ (c.pc = "returned") = (c.resp # Undefined)
            /\ (c.resp # Undefined /\ ~ExchangeFailed(c.resp)
                  => c.result = CallbackResult(c.resp.body.value, Undefined, Undefined))

\* A token body with an id_token came back as the tokenResponse.
C5_Witness ==
  \E i \in CallbackCalls :
    LET c == calls[i]
    IN /\ c.pc = "returned" /\ c.resp # Undefined /\ ~ExchangeFailed(c.resp)
       /\ c.resp.body.value = TokenBody(Str(<<"h.p.s">>))
       /\ c.result.tokenResponse = TokenBody(Str(<<"h.p.s">>))

\* C6: no `error`, the stored state and no `code` parameter: invalid_response,
\* "Authorization code is missing", and no token request.
C6_MissingCodeRefused ==
  \A i \in CallbackCalls :
    LET c == calls[i]
    IN (c.arg.absolute /\ ~HasParam(c.arg, "error") /\ StateMatches(c.arg)
        /\ ~HasParam(c.arg, "code"))
         => /\ c.pc = "returned"
            /\ c.result = InvalidResponse
            /\ c.reqs = <<>>

\* A callback with the stored state and no code was refused.
C6_Witness ==
  \E i \in CallbackCalls :
    LET c == calls[i]
    IN /\ c.arg.absolute /\ ~HasParam(c.arg, "error") /\ StateMatches(c.arg)
       /\ ~HasParam(c.arg, "code")
       /\ c.pc = "returned" /\ c.result = InvalidResponse

\* C7: every result handleCallback returns holds exactly one of `error` and
\* `tokenResponse`.  A field holds something when the test the callers of
\* the result apply to it (`if (result.error)`, `if (!result.tokenResponse)`)
\* finds it.
C7_ExactlyOneOutcome ==
  \A i \in CallbackCalls :
    calls[i].pc = "returned"
      => Truthy(calls[i].result.error) # Truthy(calls[i].result.tokenResponse)

\* The payload of a token validateIdToken can decode, as an object.
HasPayload(idToken) ==
  /\ Len(idToken.parts) = 3
  /\ idToken.parts[2].kind = "json"
  /\ idToken.parts[2].value.t = "obj"
PayloadOf(idToken) == idToken.parts[2].value.v

\* C8: validateIdToken returns true only for a token whose payload has an
\* `exp` that is a number strictly greater than the current time in seconds.
C8_ExpiryRequired ==
  \A i \in ValidateCalls :
    LET c == calls[i]
    IN c.result = Bool(TRUE)
         => /\ HasPayload(c.arg)
            /\ PayloadOf(c.arg).exp.t = "num"
            /\ PayloadOf(c.arg).exp.v > c.at

\* C9: a payload with a `nonce` claim, of any value, that differs from the
\* stored nonce is refused; only a payload without the claim is accepted
\* without comparison.
C9_NonceCompared ==
  \A i \in ValidateCalls :
    LET c == calls[i]
    IN (HasPayload(c.arg) /\ PayloadOf(c.arg).nonce # Undefined
        /\ PayloadOf(c.arg).nonce # rp.nonce)
         => c.result = Bool(FALSE)

\* The audience names the client: it is the clientId, or a list holding it.
AudienceNames(aud, clientId) ==
  \/ aud = Str(clientId)
  \/ aud.t = "arr" /\ \E k \in 1..Len(aud.v) : aud.v[k] = Str(clientId)

\* C10: a payload whose `aud` is neither the configured clientId nor a list
\* holding it (a missing `aud` too) is refused.
C10_AudienceRequired ==
  \A i \in ValidateCalls :
    LET c == calls[i]
    IN (HasPayload(c.arg)
        /\ ~AudienceNames(PayloadOf(c.arg).aud, rp.config.clientId.v))
         => c.result = Bool(FALSE)

\* A token that is fine but for its audience, a list of other clients, was
\* refused.
C10_Witness ==
  \E i \in ValidateCalls :
    LET c == calls[i]
    IN /\ HasPayload(c.arg)
       /\ PayloadOf(c.arg).aud = Arr(<<Str(OtherClientId), Str(OtherClientId)>>)
       /\ PayloadOf(c.arg).exp.t = "num" /\ PayloadOf(c.arg).exp.v > c.at
       /\ Truthy(PayloadOf(c.arg).iss)
       /\ PayloadOf(c.arg).nonce = rp.nonce
       /\ c.result = Bool(FALSE)


\* C11: validateIdToken never throws: it returns a boolean for every string,
\* and false when the string has not exactly three segments or its middle
\* segment is no base64, no JSON, or JSON that is no object (null included).
C11_MalformedTokenIsFalse ==
  \A i \in ValidateCalls :
    LET c == calls[i]
    IN /\ c.pc = "returned"
       /\ c.result \in {Bool(TRUE), Bool(FALSE)}
       /\ (~HasPayload(c.arg) => c.result = Bool(FALSE))

\* A token whose payload is the JSON text `null` was reported invalid.
C11_Witness ==
  \E i \in ValidateCalls :
    LET c == calls[i]
    IN /\ Len(c.arg.parts) = 3
       /\ c.arg.parts[2] = Segment("json", Null)
       /\ c.pc = "returned" /\ c.result = Bool(FALSE)

\* C12: a three-segment token whose payload has an `exp` after the current
\* time, a non-empty `iss`, an `aud` that is or holds the clientId, and a
\* `nonce` that is the stored nonce or is not there, is valid.
C12_GoodTokenAccepted ==
  \A i \in ValidateCalls :
    LET c == calls[i]
    IN (/\ HasPayload(c.arg)
        /\ PayloadOf(c.arg).exp.t = "num" /\ PayloadOf(c.arg).exp.v > c.at
        /\ PayloadOf(c.arg).iss.t = "str" /\ PayloadOf(c.arg).iss.v # <<>>
        /\ AudienceNames(PayloadOf(c.arg).aud, rp.config.clientId.v)
        /\ PayloadOf(c.arg).nonce \in {Undefined, rp.nonce})
         => c.result = Bool(TRUE)

\* A token without a nonce claim, its audience a list holding the clientId,
\* was accepted.
C12_Witness ==
  \E i \in ValidateCalls :
    LET c == calls[i]
    IN /\ HasPayload(c.arg)
       /\ PayloadOf(c.arg).nonce = Undefined
       /\ PayloadOf(c.arg).aud = Arr(<<Str(OtherClientId), Str(ClientId)>>)
       /\ PayloadOf(c.arg).exp.t = "num" /\ PayloadOf(c.arg).exp.v > c.at
       /\ c.result = Bool(TRUE)

\* Constructor calls that have come to their end.
ConstructCalls ==
  {i \in DOMAIN calls : calls[i].op = "new" /\ calls[i].pc \in {"returned", "thrown"}}

RequiredOrder ==
  <<"clientId", "redirectUri", "authorizationEndpoint", "tokenEndpoint">>
RequiredMessage ==
  [clientId |-> <<"clientId is required">>,
   redirectUri |-> <<"redirectUri is required">>,
   authorizationEndpoint |-> <<"authorizationEndpoint is required">>,
   tokenEndpoint |-> <<"tokenEndpoint is required">>]

\* A field the caller left out or set to the empty string.
MissingOrEmpty(v) == v = Undefined \/ v = Str(<<>>)

\* The positions in RequiredOrder of the required fields `config` lacks.
MissingRequired(config) ==
  {k \in DOMAIN RequiredOrder : MissingOrEmpty(config[RequiredOrder[k]])}

\* C13: a constructor call whose configuration lacks required fields throws
\* the error naming the first of them in the order clientId, redirectUri,
\* authorizationEndpoint, tokenEndpoint, and leaves the caller no instance.
C13_FirstMissingFieldNamed ==
  \A i \in ConstructCalls :
    LET c == calls[i]
        lacking == MissingRequired(c.arg)
    IN lacking # {} =>
         /\ c.pc = "thrown"
         /\ \E k \in lacking :
              /\ \A j \in lacking : k <= j
              /\ c.result = Err(RequiredMessage[RequiredOrder[k]])
         /\ rp = NoInstance

\* A configuration without redirectUri and without tokenEndpoint was
\* refused for its redirectUri.
C13_Witness ==
  \E i \in ConstructCalls :
    LET c == calls[i]
    IN /\ c.arg.clientId = Str(ClientId)
       /\ c.arg.redirectUri = Str(<<>>)
       /\ c.arg.tokenEndpoint = Undefined
       /\ c.pc = "thrown"
       /\ c.result = Err(<<"redirectUri is required">>)
       /\ rp = NoInstance

\* The optional fields of a configuration other than responseType and scope.
OtherOptionalFields ==
  {"userinfoEndpoint", "jwksUri", "clientSecret", "responseMode", "state",
   "nonce", "display", "prompt", "maxAge", "uiLocales", "idTokenHint",
   "loginHint", "acrValues"}

\* C14 as stated: responseType and scope are the defaults when the caller
\* left them out, and every optional field the caller supplied, responseType
\* and scope included, is stored with the caller's value.
C14_SuppliedFieldsKept ==
  \A i \in ConstructCalls :
    LET c == calls[i]
    IN c.pc = "returned" =>
         /\ c.arg.responseType = Undefined => rp.config.responseType = Str(<<"code">>)
         /\ c.arg.scope = Undefined
              => rp.config.scope = Str(<<"openid profile email">>)
         /\ \A f \in OtherOptionalFields \cup {"responseType", "scope"} :
              c.arg[f] # Undefined => rp.config[f] = c.arg[f]

\* C14, amended: responseType and scope are the defaults when the caller
\* left them out or supplied the empty string, and are the caller's value
\* otherwise; every other field is stored as the caller gave it.
C14_DefaultsMerged ==
  \A i \in ConstructCalls :
    LET c == calls[i]
    IN c.pc = "returned" =>
         /\ rp.config.responseType =
              (IF MissingOrEmpty(c.arg.responseType) THEN Str(<<"code">>)
               ELSE c.arg.responseType)
         /\ rp.config.scope =
              (IF MissingOrEmpty(c.arg.scope) THEN Str(<<"openid profile email">>)
               ELSE c.arg.scope)
         /\ \A f \in OtherOptionalFields \cup DOMAIN RequiredMessage :
              rp.config[f] = c.arg[f]

\* A supplied responseType was kept while the scope, left out, became the
\* default.
C14_Witness ==
  \E i \in ConstructCalls :
    LET c == calls[i]
    IN /\ c.pc = "returned"
       /\ c.arg.responseType = Str(<<"code", " ", "id_token">>)
       /\ c.arg.scope = Undefined
       /\ rp.config.responseType = Str(<<"code", " ", "id_token">>)
       /\ rp.config.scope = Str(<<"openid profile email">>)

\* generateAuthorizationUrl calls that have come to their end.
GenerateCalls ==
  {i \in DOMAIN calls : /\ calls[i].op = "generateAuthorizationUrl"
                        /\ calls[i].pc \in {"returned", "thrown"}}

\* `s` begins with `prefix`.
StartsWith(s, prefix) ==
  Len(s) >= Len(prefix) /\ SubSeq(s, 1, Len(prefix)) = prefix

\* C15: the URL generateAuthorizationUrl returns is the configured
\* authorization endpoint followed by a query in which client_id,
\* redirect_uri, response_type, scope, state and nonce are all there, with
\* the configured clientId, redirectUri, responseType and scope and the
\* stored state and nonce as their values.
C15_RequiredParametersPresent ==
  \A i \in GenerateCalls :
    LET c == calls[i]
    IN /\ c.pc = "returned"
       /\ StartsWith(c.result.v, rp.config.authorizationEndpoint.v)
       /\ UrlParamsGet(c.result.v, "client_id") = rp.config.clientId
       /\ UrlParamsGet(c.result.v, "redirect_uri") = rp.config.redirectUri
       /\ UrlParamsGet(c.result.v, "response_type") = rp.config.responseType
       /\ UrlParamsGet(c.result.v, "scope") = rp.config.scope
       /\ UrlParamsGet(c.result.v, "state") = rp.state
       /\ UrlParamsGet(c.result.v, "nonce") = rp.nonce

\* The query parameter each optional string field is sent as.
OptionParamName ==
  [responseMode |-> "response_mode", display |-> "display", prompt |-> "prompt",
   uiLocales |-> "ui_locales", idTokenHint |-> "id_token_hint",
   loginHint |-> "login_hint", acrValues |-> "acr_values"]

\* The decimal form of the maxAge values of the configurations.
DecimalForm(m) ==
  CASE m = Num(0) -> Str(<<"0">>)
    [] m = Num(3600) -> Str(<<"3", "6", "0", "0">>)

\* C16 as stated: each optional parameter is in the URL if and only if its
\* configuration field is set (is not undefined), with the configured value;
\* max_age is the decimal form of maxAge.
C16_OptionalIffSet ==
  \A i \in GenerateCalls :
    LET c == calls[i]
    IN /\ \A f \in OptionFields :
            UrlParamsGet(c.result.v, OptionParamName[f]) =
              (IF rp.config[f] = Undefined THEN Null ELSE rp.config[f])
       /\ UrlParamsGet(c.result.v, "max_age") =
            (IF rp.config.maxAge = Undefined THEN Null
             ELSE DecimalForm(rp.config.maxAge))

\* C16, amended: each optional string parameter is in the URL if and only
\* if its configuration field is a non-empty string, with the configured
\* value; max_age is there if and only if maxAge is not undefined, as the
\* decimal form of maxAge, 0 included.
C16_OptionalIffNonEmpty ==
  \A i \in GenerateCalls :
    LET c == calls[i]
    IN /\ c.pc = "returned"
       /\ \A f \in OptionFields :
            UrlParamsGet(c.result.v, OptionParamName[f]) =
              (IF MissingOrEmpty(rp.config[f]) THEN Null ELSE rp.config[f])
       /\ UrlParamsGet(c.result.v, "max_age") =
            (IF rp.config.maxAge = Undefined THEN Null
             ELSE DecimalForm(rp.config.maxAge))

\* With maxAge 0, an acrValues holding "&" and "=", and an empty display,
\* the URL had max_age=0 and the acr_values as configured, and no display.
C16_Witness ==
  \E i \in GenerateCalls :
    LET c == calls[i]
    IN /\ c.pc = "returned"
       /\ rp.config.maxAge = Num(0)
       /\ rp.config.display = Str(<<>>)
       /\ rp.config.acrValues = OptionValue("acrValues")
       /\ UrlParamsGet(c.result.v, "max_age") = Str(<<"0">>)
       /\ UrlParamsGet(c.result.v, "acr_values") = OptionValue("acrValues")
       /\ UrlParamsGet(c.result.v, "display") = Null

\* C17: however often generateAuthorizationUrl is called on an instance,
\* and whatever is called in between, it returns one and the same URL,
\* issues no request, and leaves config, state and nonce as constructed.
C17_SameUrlEveryCall ==
  /\ Cardinality(history.urls) <= 1
  /\ \A i \in GenerateCalls :
       LET c == calls[i]
       IN /\ c.pc = "returned"
          /\ c.reqs = <<>>
          /\ history.urls = {c.result}
          /\ rp = history.built

\* generateAuthorizationUrl was called a second time and returned the URL
\* of the first call.
C17_Witness ==
  \E i \in GenerateCalls :
    /\ history.repeated
    /\ history.urls = {calls[i].result}
    /\ calls[i].reqs = <<>>
    /\ rp = history.built

\* What each operation that calls an endpoint puts before the status text.
FailurePrefix ==
  [getToken |-> <<"Token request failed: ">>,
   refreshToken |-> <<"Token refresh failed: ">>,
   getUserInfo |-> <<"UserInfo request failed: ">>]

\* Direct calls of getToken, refreshToken or getUserInfo whose request has
\* been answered.
AnsweredCalls ==
  {i \in DOMAIN calls : /\ calls[i].op \in DOMAIN FailurePrefix
                        /\ calls[i].pc \in {"returned", "thrown"}
                        /\ calls[i].reqs # <<>>
                        /\ calls[i].resp.kind = "response"}

\* C18: a getToken, refreshToken or getUserInfo call whose endpoint answers
\* with a non-success status rejects, with an error whose message is the
\* prefix of the operation followed by the status text of the response.
C18_NonSuccessStatusRejects ==
  \A i \in AnsweredCalls :
    LET c == calls[i]
    IN ~c.resp.ok =>
         /\ c.pc = "thrown"
         /\ c.result = Err(FailurePrefix[c.op] \o c.resp.statusText)

\* A refreshToken call answered "Bad Request", with a body that parses,
\* rejected with "Token refresh failed: Bad Request".
C18_Witness ==
  \E i \in AnsweredCalls :
    LET c == calls[i]
    IN /\ c.op = "refreshToken"
       /\ ~c.resp.ok /\ c.resp.body.parses
       /\ c.pc = "thrown"
       /\ c.result = Err(<<"Token refresh failed: ", "Bad Request">>)

\* getUserInfo calls, started or ended.
UserInfoCalls ==
  {i \in DOMAIN calls : calls[i].op = "getUserInfo" /\ calls[i].pc # "idle"}

\* C19: on an instance without a userinfoEndpoint, getUserInfo rejects with
\* "userinfoEndpoint is not configured", whatever the access token, and
\* issues no request.
C19_UnconfiguredUserInfoRejects ==
  \A i \in UserInfoCalls :
    LET c == calls[i]
    IN MissingOrEmpty(rp.config.userinfoEndpoint) =>
         /\ c.pc = "thrown"
         /\ c.result = Err(<<"userinfoEndpoint is not configured">>)
         /\ c.reqs = <<>>

\* A getUserInfo call with a real access token on an instance without a
\* userinfoEndpoint was rejected without a request.
C19_Witness ==
  \E i \in UserInfoCalls :
    LET c == calls[i]
    IN /\ rp.config.userinfoEndpoint = Undefined
       /\ c.arg = Str(<<"test-access-token">>)
       /\ c.pc = "thrown"
       /\ c.result = Err(<<"userinfoEndpoint is not configured">>)
       /\ c.reqs = <<>>

\* C20: once constructed, the instance keeps the state, the nonce and the
\* configuration the constructor gave it, whichever methods are called and
\* however they end.
C20_FieldsFixedAtConstruction ==
  rp # NoInstance =>
    /\ rp.state = history.built.state
    /\ rp.nonce = history.built.nonce
    /\ rp.config = history.built.config

\* A handleCallback call that found the state wrong has ended, after
\* generateAuthorizationUrl was called twice, and the fields are as built.
C20_Witness ==
  /\ rp # NoInstance
  /\ rp = history.built
  /\ history.repeated
  /\ \E i \in DOMAIN calls :
       /\ calls[i].op = "handleCallback"
       /\ calls[i].pc = "returned"
       /\ calls[i].result.error = Str(<<"invalid_state">>)

\* The value of the first parameter `name` in the query of `url`, as it
\* stands there (still encoded), or Null.
RawQueryValue(url, name) ==
  LET pieces == Split(UrlSearch(url), "&")
      named == {k \in DOMAIN pieces :
                  LET e == IndexOf(pieces[k], "=")
                  IN e > 0 /\ SubSeq(pieces[k], 1, e - 1) = <<name>>}
  IN IF named = {} THEN Null
     ELSE LET k == CHOOSE j \in named : \A m \in named : j <= m
          IN Str(SubSeq(pieces[k], IndexOf(pieces[k], "=") + 1, Len(pieces[k])))

\* The callback URL carries, as its (first) state parameter, the state
\* parameter of an authorization URL the instance has generated, unchanged.
EchoesGeneratedState(url) ==
  /\ HasParam(url, "state")
  /\ \E u \in history.urls :
       ParamsGet(url.search, "state") = RawQueryValue(u.v, "state")

\* C21: a handleCallback call with a callback URL that has no error
\* parameter and echoes the state of the generated authorization URL
\* unchanged is never answered invalid_state, whether the state was supplied
\* by the caller or generated by the constructor.
C21_EchoedStatePasses ==
  \A i \in CallbackCalls :
    LET c == calls[i]
    IN (c.arg.absolute /\ ~HasParam(c.arg, "error") /\ EchoesGeneratedState(c.arg))
         => /\ c.pc \in {"fetching", "returned"}
            /\ c.pc = "returned" /\ c.reqs = <<>> => c.result = InvalidResponse
            /\ c.pc = "returned" => c.result.error # Str(<<"invalid_state">>)
            /\ HasCode(c.arg) => Len(c.reqs) = 1

\* On an instance whose state the constructor generated, a callback echoing
\* the state of the generated URL went on to the token request.
C21_Witness ==
  \E i \in CallbackCalls :
    LET c == calls[i]
    IN /\ rp.config.state = Undefined
       /\ c.arg.absolute /\ ~HasParam(c.arg, "error")
       /\ EchoesGeneratedState(c.arg)
       /\ HasCode(c.arg)
       /\ c.pc = "fetching"
       /\ Len(c.reqs) = 1

\* The callback URL has no error parameter, the state the instance was
\* constructed with, and a code.
GoodCallback(url) ==
  /\ url.absolute
  /\ ~HasParam(url, "error")
  /\ HasParam(url, "state") /\ ParamOf(url, "state") = history.built.state
  /\ HasCode(url)

\* Call `c` of handleCallback presents a code the provider redeemed for an
\* earlier call.
Replays(c) ==
  /\ GoodCallback(c.arg)
  /\ ParamOf(c.arg, "code") \in provider.consumed
  /\ ~(c.reqs # <<>> /\ c.pc = "returned" /\ c.resp.ok)

TokenError(description) ==
  CallbackResult(Undefined, Str(<<"token_error">>), Str(description))

\* C22: a handleCallback call that presents again a code an earlier call
\* has redeemed passes the local checks, issues a token request of its own
\* for that code, and, the provider refusing it, reports token_error.
C22_ReplayFailsAtProvider ==
  \A i \in CallbackCalls :
    LET c == calls[i]
    IN Replays(c) =>
         /\ c.pc \in {"fetching", "returned"}
         /\ Len(c.reqs) = 1
         /\ RequestedCode(c.reqs[1]) = ParamOf(c.arg, "code")
         /\ c.pc = "returned" =>
              /\ c.result.error = Str(<<"token_error">>)
              /\ c.result.tokenResponse = Undefined
         /\ c.pc = "returned" /\ c.resp = Refusal =>
              c.result = TokenError(<<"Token request failed: ", "Bad Request">>)

\* After a success, the same callback URL was presented again; the provider
\* refused the code and the call reported token_error.
C22_Witness ==
  \E i \in CallbackCalls :
    LET c == calls[i]
    IN /\ Replays(c)
       /\ Undefined \in history.outcomes
       /\ c.pc = "returned"
       /\ c.resp = Refusal
       /\ c.result.error = Str(<<"token_error">>)

\* How a call of `op` with `arg`, started at `now` and answered `resp`, ends
\* on the instance as constructed when nothing else runs.
Alone(op, arg, now, resp) ==
  LET first == Step(op, history.built, arg, now)
  IN IF first.kind = "fetch" THEN Resume(op, resp) ELSE first

\* The calls of the six methods that are under way or have ended.
MethodCalls == {i \in DOMAIN calls : calls[i].pc # "idle" /\ calls[i].op # "new"}

\* C23: whatever other calls are in flight on the instance, a call issues
\* the request and ends with the result it would have alone, given the
\* answer of the endpoint to its request.
C23_CallsDoNotInterfere ==
  \A i \in MethodCalls :
    LET c == calls[i]
        first == Step(c.op, history.built, c.arg, c.at)
    IN /\ c.reqs = (IF first.kind = "fetch" THEN <<first.value>> ELSE <<>>)
       /\ c.pc = "fetching" => first.kind = "fetch"
       /\ c.pc # "fetching" =>
            LET last == Alone(c.op, c.arg, c.at, c.resp)
            IN /\ c.pc = (IF last.kind = "return" THEN "returned" ELSE "thrown")
               /\ c.result = last.value

\* A handleCallback call ended with the token response while a refreshToken
\* call was suspended at its request, which was then refused.
C23_Witness ==
  /\ history.overlapped
  /\ \E i \in MethodCalls, j \in MethodCalls :
       /\ i # j
       /\ calls[i].op = "handleCallback"
       /\ calls[i].pc = "returned"
       /\ calls[i].result = CallbackResult(Grant.body.value, Undefined, Undefined)
       /\ calls[j].op = "refreshToken"
       /\ calls[j].pc = "thrown"
       /\ calls[j].result = Err(<<"Token refresh failed: ", "Bad Request">>)

\* C24: a handleCallback call issues a token request only for a callback
\* URL that has no error parameter, has the stored state and has a code, and
\* issues at most one; a getToken, refreshToken or getUserInfo call issues
\* exactly one request (getUserInfo none without a userinfoEndpoint), also
\* when the request fails.
C24_OneRequestAfterChecks ==
  \A i \in MethodCalls :
    LET c == calls[i]
    IN /\ Len(c.reqs) <= 1
       /\ c.op = "handleCallback" /\ c.reqs # <<>> =>
            /\ ~HasParam(c.arg, "error")
            /\ StateMatches(c.arg)
            /\ HasCode(c.arg)
       /\ c.op \in {"getToken", "refreshToken"} => Len(c.reqs) = 1
       /\ c.op = "getUserInfo" =>
            Len(c.reqs) = (IF MissingOrEmpty(rp.config.userinfoEndpoint) THEN 0 ELSE 1)

\* The names of the parameters of a form body.
BodyNames(body) == {body[k][1] : k \in DOMAIN body}
\* The decoded value of parameter `name` of a form body.
BodyValue(body, name) == ParamsGet(ParseSearch(body), name)

\* A POST of a form to the configured token endpoint.
TokenEndpointPost(request) ==
  /\ request.url = rp.config.tokenEndpoint
  /\ request.method = "POST"
  /\ request.contentType = "application/x-www-form-urlencoded"

\* The body has a client_secret, the configured one, exactly when the
\* configuration has a (non-empty) clientSecret.
SecretIffConfigured(body) ==
  IF MissingOrEmpty(rp.config.clientSecret)
    THEN "client_secret" \notin BodyNames(body)
  ELSE BodyValue(body, "client_secret") = rp.config.clientSecret

\* The code a call asks to exchange: the argument of getToken, the code
\* parameter of the callback URL of handleCallback.
GivenCode(c) == IF c.op = "getToken" THEN c.arg ELSE ParamOf(c.arg, "code")

\* C25: the code exchange is a form POST to the token endpoint with
\* grant_type authorization_code, the given code, and the configured
\* redirect_uri and client_id; the refresh is one with grant_type
\* refresh_token, the given refresh_token and the client_id, and no
\* redirect_uri; both carry the client_secret exactly when one is configured.
C25_TokenRequestShape ==
  \A i \in MethodCalls :
    LET c == calls[i]
    IN /\ c.op \in {"getToken", "handleCallback"} /\ c.reqs # <<>> =>
            LET body == c.reqs[1].body
            IN /\ TokenEndpointPost(c.reqs[1])
               /\ BodyNames(body) \ {"client_secret"} =
                    {"grant_type", "code", "redirect_uri", "client_id"}
               /\ BodyValue(body, "grant_type") = Str(<<"authorization_code">>)
               /\ BodyValue(body, "code") = GivenCode(c)
               /\ BodyValue(body, "redirect_uri") = rp.config.redirectUri
               /\ BodyValue(body, "client_id") = rp.config.clientId
               /\ SecretIffConfigured(body)
       /\ c.op = "refreshToken" =>
            LET body == c.reqs[1].body
            IN /\ TokenEndpointPost(c.reqs[1])
               /\ BodyNames(body) \ {"client_secret"} =
                    {"grant_type", "refresh_token", "client_id"}
               /\ BodyValue(body, "grant_type") = Str(<<"refresh_token">>)
               /\ BodyValue(body, "refresh_token") = c.arg
               /\ BodyValue(body, "client_id") = rp.config.clientId
               /\ SecretIffConfigured(body)

\* A refresh token holding "+", "&" and "=" was sent, with the configured
\* client_secret, and decodes to itself.
C25_Witness ==
  \E i \in MethodCalls :
    LET c == calls[i]
    IN /\ c.op = "refreshToken"
       /\ c.arg = Str(<<"r", "+", "&", "=">>)
       /\ rp.config.clientSecret = Str(ClientSecret)
       /\ "redirect_uri" \notin BodyNames(c.reqs[1].body)
       /\ BodyValue(c.reqs[1].body, "refresh_token") = c.arg
       /\ BodyValue(c.reqs[1].body, "client_secret") = Str(ClientSecret)

\* The token with the header and the signature segment replaced.
Resigned(idToken) ==
  [parts |-> <<Header, idToken.parts[2], Segment("opaque", Undefined)>>]

\* The token with the issuer of its payload replaced.
Reissued(idToken, iss) ==
  [parts |-> <<idToken.parts[1],
               Segment("json", Obj([PayloadOf(idToken) EXCEPT !.iss = iss])),
               idToken.parts[3]>>]

\* C26: the verdict on a three-segment token is the verdict on the token
\* with the same payload segment and any other header and signature, and,
\* when the payload has a non-empty issuer, the verdict on the token with
\* any other non-empty issuer.
C26_VerdictIgnoresSignatureAndIssuer ==
  \A i \in ValidateCalls :
    LET c == calls[i]
    IN Len(c.arg.parts) = 3 =>
         /\ c.pc = "returned"
         /\ c.result = ValidateIdToken(rp, Resigned(c.arg), c.at).value
         /\ (/\ HasPayload(c.arg)
             /\ PayloadOf(c.arg).iss.t = "str"
             /\ PayloadOf(c.arg).iss.v # <<>>)
              => \A iss \in {<<"https://op.example">>, <<"https://evil.example">>} :
                   c.result = ValidateIdToken(rp, Reissued(c.arg, Str(iss)), c.at).value

\* A token with a header that is no base64, a signature that is none, and
\* an issuer of its own was accepted.
C26_Witness ==
  \E i \in ValidateCalls :
    LET c == calls[i]
    IN /\ Len(c.arg.parts) = 3
       /\ c.arg.parts[1] = Segment("opaque", Undefined)
       /\ c.arg.parts[3] = Segment("text", Undefined)
       /\ HasPayload(c.arg)
       /\ PayloadOf(c.arg).iss = Str(<<"https://evil.example">>)
       /\ c.result = Bool(TRUE)

\* The errors earlier handleCallback calls on the instance have reported:
\* a success, a rejected state and a failed token request.
EarlierOutcomes ==
  {Undefined, Str(<<"invalid_state">>), Str(<<"token_error">>)}

\* C27: whatever handleCallback calls the instance has served before, the
\* stored fields are those of construction, and a handleCallback call
\* issues the request and returns the result that the callback URL, the
\* state of construction and the answer to its own request determine.
C27_CallbackHistoryIndependent ==
  /\ rp = history.built
  /\ \A i \in CallbackCalls :
       LET c == calls[i]
           first == HandleCallbackStart(history.built, c.arg)
           asks == first.kind = "fetch"
       IN /\ c.reqs = (IF asks THEN <<first.value>> ELSE <<>>)
          /\ (c.pc = "fetching") => asks
          /\ (c.pc # "fetching") =>
               /\ c.pc = "returned"
               /\ c.result = (IF asks THEN HandleCallbackResume(c.resp).value
                              ELSE first.value)

\* After a success, a rejected state and a failed token request on the
\* instance, a callback with the stored state and a fresh code succeeded.
C27_Witness ==
  /\ EarlierOutcomes \subseteq history.outcomes
  /\ \E i \in CallbackCalls :
       LET c == calls[i]
       IN /\ GoodCallback(c.arg)
          /\ c.pc = "returned"
          /\ c.resp = Grant
          /\ c.result = CallbackResult(Grant.body.value, Undefined, Undefined)

\* The id_token of `body` is missing, or validateIdToken on the instance
\* rejects it at time `now`.
IdTokenUnacceptable(body, now) ==
  \/ body.t # "obj"
  \/ body.v.id_token = Undefined
  \/ /\ "token" \in DOMAIN body.v.id_token
     /\ ValidateIdToken(rp, body.v.id_token.token, now).value = Bool(FALSE)

\* The handleCallback calls whose token request was answered with a
\* success and a JSON body.
ExchangedCalls ==
  {i \in CallbackCalls :
     /\ calls[i].pc = "returned"
     /\ calls[i].reqs # <<>>
     /\ calls[i].resp.kind = "response"
     /\ calls[i].resp.ok
     /\ calls[i].resp.body.parses}

\* C28: a handleCallback call whose code exchange succeeds returns the body
\* as tokenResponse and no error, also when the body has no id_token or an
\* id_token that validateIdToken on the instance rejects; the call makes
\* the token request and no other.
C28_CallbackReturnsUnvalidatedToken ==
  \A i \in ExchangedCalls :
    LET c == calls[i]
    IN IdTokenUnacceptable(c.resp.body.value, c.at) =>
         /\ c.result.tokenResponse = c.resp.body.value
         /\ c.result.error = Undefined
         /\ c.result.errorDescription = Undefined
         /\ Len(c.reqs) = 1

\* The reasons validateIdToken rejects the id_token a call returned.
Rejections(c) ==
  LET token == c.resp.body.value.v.id_token.token
      asIssued(exp, aud, nonce) ==
        token = [parts |-> IssuedSegments(IssuedPayload(exp, aud, nonce))]
  IN /\ ValidateIdToken(rp, token, c.at).value = Bool(FALSE)
     /\ c.result.tokenResponse.v.id_token.token = token
     /\ \/ Len(token.parts) # 3
        \/ asIssued(0, ClientId, Undefined)
        \/ asIssued(MaxExp, OtherClientId, Undefined)
        \/ asIssued(MaxExp, ClientId, Str(<<"wrong-nonce">>))

\* A call returned, without an error, a body whose id_token validateIdToken
\* rejects.
C28_Witness ==
  \E i \in ExchangedCalls :
    LET c == calls[i]
    IN /\ c.resp.body.value.t = "obj"
       /\ c.resp.body.value.v.id_token # Undefined
       /\ "token" \in DOMAIN c.resp.body.value.v.id_token
       /\ c.result.error = Undefined
       /\ Rejections(c)

====
